---- MODULE Spec2Model ----
(***************************************************************************)
(* Model of the BMP encoder of src/src/bmp.rs: the construction of the    *)
(* file header and the info header, the channel swap on a private copy of *)
(* the pixels, and the row loop of encode().                               *)
(*                                                                         *)
(* One call of encode(image, buffer) is followed statement by statement;  *)
(* pc is the position of the call.  Byte order is little-endian (the      *)
(* target of the crate; as_u8_slice() exposes the native representation). *)
(***************************************************************************)
EXTENDS Integers, Sequences, FiniteSets, TLC

VARIABLES image, overflow_checks, pixels, info_header, header, out, y_offset, pc

vars == <<image, overflow_checks, pixels, info_header, header, out, y_offset, pc>>

----------------------------------------------------------------------------
(* Bounds of the model *)

MaxWidth == 6
MaxHeight == 3
MaxSeed == 1

----------------------------------------------------------------------------
(* Program constants *)

PIXELS_PER_METER_72_DPI == 2835
HEADER_FILE_SIZE == 14
INFO_HEADER_FILE_SIZE == 40
BI_RGB == 0

(* Image::bytes_per_pixel() and Image::bits_per_pixel() of crate::image *)
bytes_per_pixel == 3
bits_per_pixel == 24

----------------------------------------------------------------------------
(* Fixed-width integers.  A u32, i32 or u16 is held as its little-endian  *)
(* bytes, which is its memory representation on the target; arithmetic is *)
(* done on the bytes so that the whole 32-bit range is covered.           *)

LE(n, k) == [ i \in 1..k |-> (n \div (256 ^ (i - 1))) % 256 ]

(* The value of a u32 below 2^31 *)
U32Val(x) == x[1] + 256 * x[2] + 65536 * x[3] + 16777216 * x[4]

U32Zero == << 0, 0, 0, 0 >>
I32MaxBytes == << 255, 255, 255, 127 >>
I32MaxPlus1Bytes == << 0, 0, 0, 128 >>
U32MaxBytes == << 255, 255, 255, 255 >>

(* The operands of an operation are evaluated once, like the operands of *)
(* a machine instruction: Once(S) is the single element of S.             *)
Once(S) == CHOOSE r \in S : TRUE

AddBytes(a, b) ==
    LET t1 == a[1] + b[1]
        t2 == a[2] + b[2] + (t1 \div 256)
        t3 == a[3] + b[3] + (t2 \div 256)
        t4 == a[4] + b[4] + (t3 \div 256)
    IN  [ val |-> << t1 % 256, t2 % 256, t3 % 256, t4 % 256 >>,
          overflow |-> t4 >= 256 ]

MulColumn(a, b, c) ==
    LET P(i) == IF c - i \in 0..3 THEN a[i + 1] * b[c - i + 1] ELSE 0
    IN  P(0) + P(1) + P(2) + P(3)

MulBytes(a, b) ==
    LET t0 == MulColumn(a, b, 0)
        t1 == MulColumn(a, b, 1) + (t0 \div 256)
        t2 == MulColumn(a, b, 2) + (t1 \div 256)
        t3 == MulColumn(a, b, 3) + (t2 \div 256)
        t4 == MulColumn(a, b, 4) + (t3 \div 256)
        t5 == MulColumn(a, b, 5) + (t4 \div 256)
        t6 == MulColumn(a, b, 6) + (t5 \div 256)
    IN  [ val |-> << t0 % 256, t1 % 256, t2 % 256, t3 % 256 >>,
          overflow |-> (t3 \div 256) # 0 \/ t4 # 0 \/ t5 # 0 \/ t6 # 0 ]

(* u32 + u32: the wrapped sum and whether it overflowed *)
U32Add(x, y) == Once({ AddBytes(a, b) : a \in { x }, b \in { y } })

(* u32 * u32: the wrapped product and whether it overflowed *)
U32Mul(x, y) == Once({ MulBytes(a, b) : a \in { x }, b \in { y } })

(* u32 % 4 *)
U32Mod4(x) == x[1] % 4

(* i32::try_from(u32) *)
I32TryFromAsCast(x) == [ ok |-> TRUE, val |-> x ]

I32TryFrom(x) ==
    IF x[4] < 128 THEN [ ok |-> TRUE, val |-> x ] ELSE [ ok |-> FALSE, val |-> U32Zero ]

----------------------------------------------------------------------------
(* The Image value object: width, height and a buffer of 3-byte pixels.   *)
(* The buffer holds exactly width * height pixels.                         *)

SourcePixel(seed, i) ==
    << (seed + 3 * i) % 256, (seed + 3 * i + 1) % 256, (seed + 3 * i + 2) % 256 >>

MakeImage(w, h, seed) ==
    [ width  |-> LE(w, 4),
      height |-> LE(h, 4),
      buffer |-> [ i \in 1..(w * h) |-> SourcePixel(seed, i - 1) ] ]

(* Dimensions at and beyond the edge of i32; such an image has no pixels. *)
EdgeDims == { I32MaxBytes, I32MaxPlus1Bytes, U32MaxBytes }

Images ==
    { MakeImage(w, h, s) : w \in 0..MaxWidth, h \in 0..MaxHeight, s \in 0..MaxSeed }
    \cup { [ width |-> d, height |-> U32Zero, buffer |-> << >> ] : d \in EdgeDims }
    \cup { [ width |-> U32Zero, height |-> d, buffer |-> << >> ] : d \in EdgeDims }

----------------------------------------------------------------------------
(* Serialization helpers *)

Zeros(n) == [ i \in 1..n |-> 0 ]

PixelBytes(ps) ==
    [ i \in 1..(3 * Len(ps)) |-> ps[((i - 1) \div 3) + 1][((i - 1) % 3) + 1] ]

----------------------------------------------------------------------------
(* InfoHeader::new *)

(* image.width + (image.width % 4) as u32 *)
PaddedWidth(img) == U32Add(img.width, LE(U32Mod4(img.width), 4))

PaddedArea(img) == U32Mul(PaddedWidth(img).val, img.height)

ImageSize(img) == U32Mul(PaddedArea(img).val, LE(bytes_per_pixel, 4))

ImageSizeOverflows(img) ==
    PaddedWidth(img).overflow \/ PaddedArea(img).overflow \/ ImageSize(img).overflow

InfoHeaderNewPanics(img, checks) ==
    \/ checks /\ ImageSizeOverflows(img)
    \/ ~I32TryFrom(img.width).ok
    \/ ~I32TryFrom(img.height).ok

InfoHeaderNew(img) ==
    [ header_size          |-> LE(INFO_HEADER_FILE_SIZE, 4),
      image_width          |-> I32TryFrom(img.width).val,
      image_height         |-> I32TryFrom(img.height).val,
      color_planes         |-> LE(1, 2),
      bits_per_pixel       |-> LE(bits_per_pixel, 2),
      compression_method   |-> LE(BI_RGB, 4),
      image_size           |-> ImageSize(img).val,
      resolution_x         |-> LE(PIXELS_PER_METER_72_DPI, 4),
      resolution_y         |-> LE(PIXELS_PER_METER_72_DPI, 4),
      palette_size         |-> LE(0, 4),
      num_important_colors |-> LE(0, 4) ]

(* as_u8_slice(&info_header): the repr(C) struct, 40 bytes, no padding *)
InfoHeaderBytes(info) ==
    info.header_size \o info.image_width \o info.image_height
    \o info.color_planes \o info.bits_per_pixel
    \o info.compression_method \o info.image_size
    \o info.resolution_x \o info.resolution_y
    \o info.palette_size \o info.num_important_colors

----------------------------------------------------------------------------
(* Header::for_info_header and Header::write_to_buffer *)

TotalHeaderSize == U32Add(LE(HEADER_FILE_SIZE, 4), LE(INFO_HEADER_FILE_SIZE, 4)).val

ForInfoHeaderOffsetOfInfoOnly(info) ==
    [ magic        |-> << 66, 77 >>,
      file_size    |-> U32Add(info.image_size, TotalHeaderSize).val,
      reserved0    |-> LE(0, 2),
      reserved1    |-> LE(0, 2),
      image_offset |-> LE(INFO_HEADER_FILE_SIZE, 4) ]

ForInfoHeader(info) ==
    [ magic        |-> << 66, 77 >>,
      file_size    |-> U32Add(info.image_size, TotalHeaderSize).val,
      reserved0    |-> LE(0, 2),
      reserved1    |-> LE(0, 2),
      image_offset |-> TotalHeaderSize ]

ForInfoHeaderPanics(info, checks) ==
    checks /\ U32Add(info.image_size, TotalHeaderSize).overflow

(* let info_header = InfoHeader::new(image);                              *)
(* let header = Header::for_info_header(&info_header);                    *)
HeadersPanic(img, checks) ==
    \/ InfoHeaderNewPanics(img, checks)
    \/ ForInfoHeaderPanics(InfoHeaderNew(img), checks)

HeaderBytes(h) ==
    h.magic \o h.file_size \o h.reserved0 \o h.reserved1 \o h.image_offset

----------------------------------------------------------------------------
(* encode: the private copy with the channel swap *)

Swap02(p) == << p[3], p[2], p[1] >>

SwapAll(buf) == [ i \in 1..Len(buf) |-> Swap02(buf[i]) ]

CloneAndSwapInPlace(img) ==
    [ image  |-> [ img EXCEPT !.buffer = SwapAll(img.buffer) ],
      pixels |-> SwapAll(img.buffer) ]

CloneAndSwap(img) ==
    [ image  |-> img,
      pixels |-> SwapAll(img.buffer) ]

(* encode: the row loop *)

(* image.width as usize *)
WidthAsUsize(img) == U32Val(img.width)

AlignWrong(img) == (4 - U32Mod4(img.width)) % 4

Align(img) == U32Mod4(img.width)

BytesPerLine(img) == WidthAsUsize(img) * bytes_per_pixel

StrideWithoutWidth(img) == Align(img)

Stride(img) == WidthAsUsize(img) + Align(img)

(* Pixel indices (0-based) of the slice read at cursor y *)
ReadRange(img, y) == y .. (y + (BytesPerLine(img) \div bytes_per_pixel) - 1)

OutOfBounds(img, ps, y) == { j \in ReadRange(img, y) : j >= Len(ps) }

(* The bytes a read past the end of the allocation can deliver *)
Garbage == { << 0, 0, 0 >>, << 255, 255, 255 >> }

ReadRow(img, ps, y, g) ==
    PixelBytes([ i \in 1..Cardinality(ReadRange(img, y)) |->
                   IF y + i - 1 < Len(ps) THEN ps[y + i] ELSE g[y + i - 1] ])

----------------------------------------------------------------------------
(* State machine *)

NoInfoHeader == InfoHeaderNew(MakeImage(0, 0, 0))

Init ==
    /\ image \in Images
    /\ overflow_checks \in BOOLEAN
    /\ pixels = << >>
    /\ info_header = NoInfoHeader
    /\ header = ForInfoHeader(NoInfoHeader)
    /\ out = << >>
    /\ y_offset = 0
    /\ pc = "start"

(* lines 117-135 *)
SwapChannels ==
    /\ pc = "start"
    /\ image' = CloneAndSwap(image).image
    /\ pixels' = CloneAndSwap(image).pixels
    /\ pc' = "headers"
    /\ UNCHANGED << overflow_checks, info_header, header, out, y_offset >>

(* lines 137-138, the panicking path *)
BuildHeadersPanic ==
    /\ pc = "headers"
    /\ HeadersPanic(image, overflow_checks)
    /\ pc' = "panicked"
    /\ UNCHANGED << image, overflow_checks, pixels, info_header, header, out, y_offset >>

(* lines 137-138 *)
BuildHeaders ==
    /\ pc = "headers"
    /\ ~HeadersPanic(image, overflow_checks)
    /\ info_header' = InfoHeaderNew(image)
    /\ header' = ForInfoHeader(InfoHeaderNew(image))
    /\ pc' = "write_header"
    /\ UNCHANGED << image, overflow_checks, pixels, out, y_offset >>

(* line 140 *)
WriteHeader ==
    /\ pc = "write_header"
    /\ out' = out \o HeaderBytes(header)
    /\ pc' = "write_info"
    /\ UNCHANGED << image, overflow_checks, pixels, info_header, header, y_offset >>

(* lines 141-144 *)
WriteInfoHeader ==
    /\ pc = "write_info"
    /\ out' = out \o InfoHeaderBytes(info_header)
    /\ y_offset' = 0
    /\ pc' = "loop"
    /\ UNCHANGED << image, overflow_checks, pixels, info_header, header >>

(* lines 145-152, one iteration *)
WriteRow ==
    /\ pc = "loop"
    /\ y_offset < Len(pixels)
    /\ \E g \in [ OutOfBounds(image, pixels, y_offset) -> Garbage ] :
          out' = out \o ReadRow(image, pixels, y_offset, g) \o Zeros(Align(image))
    /\ y_offset' = y_offset + Stride(image)
    /\ UNCHANGED << image, overflow_checks, pixels, info_header, header, pc >>

(* lines 146-150, the read past the end of the copy hits an unmapped page *)
WriteRowFault ==
    /\ pc = "loop"
    /\ y_offset < Len(pixels)
    /\ OutOfBounds(image, pixels, y_offset) # {}
    /\ pc' = "fault"
    /\ UNCHANGED << image, overflow_checks, pixels, info_header, header, out, y_offset >>

(* lines 145, 154 *)
ExitLoop ==
    /\ pc = "loop"
    /\ ~(y_offset < Len(pixels))
    /\ pc' = "done"
    /\ UNCHANGED << image, overflow_checks, pixels, info_header, header, out, y_offset >>

Next ==
    \/ SwapChannels
    \/ BuildHeadersPanic
    \/ BuildHeaders
    \/ WriteHeader
    \/ WriteInfoHeader
    \/ WriteRow
    \/ WriteRowFault
    \/ ExitLoop

Spec == Init /\ [][Next]_vars

(* encode runs to completion once called: no suspension points *)
FairSpec == Spec /\ WF_vars(Next)

----------------------------------------------------------------------------
(* Quantities the properties are stated in *)

W == U32Val(image.width)

H == U32Val(image.height)

HeadersLen == HEADER_FILE_SIZE + INFO_HEADER_FILE_SIZE

Terminated == pc \in { "done", "panicked", "fault" }

HasPixels == Len(image.buffer) > 0

(* Bytes of one packed row as the format wants it: 3 * width pixel bytes  *)
(* and width mod 4 bytes of padding                                        *)
RowLen == 3 * W + (W % 4)

RowsEmitted == (Len(out) - HeadersLen) \div RowLen

EmittedRow(k) ==
    IF HeadersLen + (k + 1) * RowLen <= Len(out)
    THEN SubSeq(out, HeadersLen + k * RowLen + 1, HeadersLen + (k + 1) * RowLen)
    ELSE << >>

ExpectedRow(k) ==
    PixelBytes([ i \in 1..W |->
        << image.buffer[k * W + i][3], image.buffer[k * W + i][2], image.buffer[k * W + i][1] >> ])
    \o [ i \in 1..(W % 4) |-> 0 ]

RoundUpToMultipleOf4(n) == ((n + 3) \div 4) * 4

DoesNotFitI32(x) == x[4] >= 128

----------------------------------------------------------------------------
(* C1: after encode on an empty output buffer, the file_size field of the *)
(* file header (bytes 2..5 of the output) equals the number of bytes      *)
(* appended to the output buffer.                                          *)
C1_FileSizeEqualsOutputLength ==
    pc = "done" => U32Val(SubSeq(out, 3, 6)) = Len(out)

(* C2: the row loop emits exactly one packed row per image row: the       *)
(* number of rows written after the two headers equals height, for every  *)
(* width (stated here for images that have pixels).                        *)
C2_OneRowPerImageRow ==
    (pc = "done" /\ HasPixels) => RowsEmitted = H

(* C3: for every row index k in 0..height-1 the k-th emitted row is the   *)
(* source pixels k*width .. (k+1)*width-1 with bytes 0 and 2 swapped,     *)
(* followed by width mod 4 zero bytes.                                     *)
C3_RowsInSourceOrder ==
    (pc = "done" /\ HasPixels) => \A k \in 0..(H - 1) : EmittedRow(k) = ExpectedRow(k)

(* C4: the image_size field computed by InfoHeader::new equals            *)
(* round_up_to_multiple_of_4(width) * height * 3.                          *)
C4_ImageSizeIsRoundedWidth ==
    (pc \in { "write_header", "write_info", "loop", "done" } /\ HasPixels)
        => U32Val(info_header.image_size) = RoundUpToMultipleOf4(W) * H * 3

(* C5: every row the loop appends is 3*width pixel bytes followed by      *)
(* width mod 4 padding bytes; it occupies a multiple of 4 bytes, and the  *)
(* padding bytes are all zero and number fewer than 4.                     *)
C5_RowsAreMultipleOf4 ==
    [][ (pc = "loop" /\ pc' = "loop") =>
          LET n   == Len(out') - Len(out)
              pad == n - 3 * W
          IN  /\ n % 4 = 0
              /\ pad \in 0..3
              /\ pad = W % 4
              /\ \A i \in 1..pad : out'[Len(out') - i + 1] = 0 ]_vars

C5_Witness ==
    pc = "loop" /\ Len(out) > HeadersLen /\ W % 4 # 0

(* C6: the output starts with the 14-byte file header, immediately        *)
(* followed by the 40-byte info header; the first pixel byte is at index  *)
(* 54, which is the image_offset written in the file header; nothing is   *)
(* written before the headers and written bytes never change.              *)
C6_HeadersThenPixels ==
    /\ [](pc \in { "start", "headers", "write_header", "panicked" } => out = << >>)
    /\ [](pc = "write_info" => out = HeaderBytes(header) /\ Len(out) = 14)
    /\ [](pc \in { "loop", "done", "fault" } =>
            /\ Len(out) >= HeadersLen
            /\ SubSeq(out, 1, 14) = HeaderBytes(header)
            /\ SubSeq(out, 15, 54) = InfoHeaderBytes(info_header)
            /\ << out[1], out[2] >> = << 66, 77 >>
            /\ U32Val(SubSeq(out, 11, 14)) = 54
            /\ U32Val(SubSeq(out, 15, 18)) = 40
            /\ (Len(out) > HeadersLen => out[55] = image.buffer[1][3]))
    /\ [][ Len(out') >= Len(out) /\ SubSeq(out', 1, Len(out)) = out ]_vars

C6_Witness ==
    pc = "done" /\ Len(out) > HeadersLen

(* C7: encode never changes the caller's image: buffer, width and height  *)
(* are the same after every step of the call.                              *)
C7_SourceImageUnchanged ==
    [][ image' = image ]_vars

C7_Witness ==
    pc = "done" /\ HasPixels /\ pixels # image.buffer

(* C8: when width or height does not fit an i32, encode does not get past *)
(* the construction of the headers and the output buffer stays as it was. *)
C8_OverflowFailsBeforeOutput ==
    (DoesNotFitI32(image.width) \/ DoesNotFitI32(image.height))
        => (out = << >> /\ pc \in { "start", "headers", "panicked" })

C8_Witness ==
    pc = "panicked" /\ DoesNotFitI32(image.width) /\ out = << >>

(* C9: in every iteration of the row loop the pixels read,               *)
(* y_offset .. y_offset + width - 1, lie within the copy of the buffer.   *)
C9_ReadWithinBuffer ==
    (pc = "loop" /\ y_offset < Len(pixels)) => y_offset + W <= Len(pixels)

(* C10: encode terminates; y_offset strictly increases on every iteration *)
(* of the row loop, which runs only while y_offset is below the pixel     *)
(* count.                                                                  *)
C10_Terminates ==
    /\ <>Terminated
    /\ [][ (pc = "loop" /\ pc' = "loop") =>
             (y_offset < Len(pixels) /\ y_offset' > y_offset) ]_vars

C10_Witness ==
    pc = "done" /\ HasPixels /\ y_offset >= Len(pixels) /\ Len(out) >= HeadersLen + 2 * RowLen

====
